---- MODULE Spec2Model ----
(***************************************************************************)
(* Real-time room/session coordination layer of the chat server:           *)
(* SocketHandler (server/socket/socketHandler.js) with the Room and        *)
(* Message stores it calls.  Every `await` of a handler is a point where   *)
(* other handlers may run; the code between two awaits is one step.        *)
(***************************************************************************)
EXTENDS Integers, FiniteSets, Sequences, TLC

\* ---------------------------------------------------------------- bounds
\* number of inbound transport events (connection, disconnect, join-room,
\* leave-room, send-message) dispatched in one run, per specification
MaxOps == 3        \* Spec: all sockets, handlers interleave at their awaits
MaxSeqOps == 4     \* SpecSeq: all sockets, each handler runs to completion
MaxSoloOps == 4    \* SpecSolo: one socket, handlers interleave at their awaits
MaxFailOps == 5    \* SpecFail: two users, the database may be shut down
MaxAuthOps == 4    \* SpecAuth: handshakes with any token
MaxQueryOps == 5   \* SpecQuery: participant queries, no messages
MaxSendOps == 5    \* SpecSend: two users, messages at the length limit
MaxRoomOps == 3    \* SpecRooms: concurrent Room.create and room.updateName calls
MaxDeleteOps == 4  \* SpecDelete: one socket and DELETE /api/rooms/:id requests
MaxLimitOps == 4   \* SpecLimit: requests through one rate limiter
MaxTime == 3       \* SpecLimit: the last value of the clock
MaxTokenOps == 6   \* SpecToken: calls of the JWT utilities and clock advances
MaxClientOps == 6  \* SpecClient: events handled by the client's SocketManager

\* ---------------------------------------------------------------- domains
Users == {"u1", "u2"}
\* sockets; c1 and c2 are two devices/tabs of u1 (same token), c3 is u2
Conns == {"c1", "c2", "c3"}
Owner(c) == IF c = "c3" THEN "u2" ELSE "u1"

NoRoom == "none"                 \* roomId undefined / currentRoom null
NoConn == "none"                 \* userInfo undefined
ActiveRooms == {"rA", "rB"}      \* room records with isActive = true
InactiveRooms == {"rI"}          \* room record with isActive = false
UnknownRooms == {"rX"}           \* an id with no room record
RoomIds == ActiveRooms \cup InactiveRooms \cup UnknownRooms
RoomInputs == RoomIds \cup {NoRoom}
\* ids (uuidv4) of the rooms Room.create makes, in the order they are handed out
NewRoomIds == <<"r1", "r2", "r3", "r4">>
\* the rooms collection is a Map: its records are scanned in insertion order
RoomOrder == <<"rA", "rB", "rI">> \o NewRoomIds
\* room names passed to Room.create and updateName: not taken, the same between
\* spaces, the name of room rA, and the empty name
NameInputs == {"lobby", " lobby ", "a", ""}
\* message contents: "", whitespace only, a short text, 1001 characters
Contents == {"empty", "blank", "text", "long"}
\* handshake tokens by shape: absent, on the blacklist, bad signature, past its
\* expiry, well-formed for a user id with no record, well-formed for the owner
NoToken == "none"
\* req.ip of the HTTP clients
ClientIds == {"ip1", "ip2"}
\* arguments of rateLimiter(maxRequests, windowMs)
LimiterMaxes == {0, 1, 2}
LimiterWindows == {1, 2}
\* no limiter has been made yet
NoLimiter == [made |-> FALSE, maxRequests |-> 0, windowMs |-> 0]
\* options.expiresIn of generateToken, in seconds ('0s' included)
ExpiresIn == {0, 1, 2}
\* milliseconds the clock advances by between two calls
Delays == {1, 999, 1000}
\* tokens not made by generateToken: signed with another secret, or not a JWT
CraftedTokens == {[iat |-> 0, exp |-> e, kind |-> "forged"] : e \in {1, 2}}
                 \cup {[iat |-> 0, exp |-> 0, kind |-> "garbage"]}
Tokens == {NoToken, "revoked", "forged", "expired", "ghost", "valid"}

VARIABLES
    live,              \* sockets whose transport is connected
    groups,            \* socket.rooms: socket -> set of roomIds (transport groups)
    connectedUsers,    \* Map userId -> {socketId, currentRoom}
    roomParticipants,  \* Map roomId -> Set of userIds
    dbRooms,           \* room records: roomId -> {isActive, participants}
    messages,          \* persisted Message records per roomId (count)
    tasks,             \* handler invocations suspended at an await
    nOps,              \* inbound events dispatched so far
    lastIn,            \* the inbound event dispatched by the last step, if any
    emitted,           \* events delivered to sockets by the last step
    connected,         \* database.connected
    refused,           \* sockets whose latest handshake the middleware refused
    limiter,           \* rateLimiter(maxRequests, windowMs): the two arguments
    requests,          \* the limiter's Map clientId -> array of timestamps
    now,               \* Date.now()
    passed,            \* history: clientId -> timestamps of the requests let through
    blacklistedTokens, \* jwtUtils.blacklistedTokens
    issued,            \* the tokens clients hold: generated ones and crafted ones
    revoked,           \* history: the tokens blacklisted so far
    client,            \* the browser's SocketManager: isConnected, currentRoom, the
                       \* library events due (pending), and as history the room
                       \* it was in when the socket dropped
    outbox             \* events the client has emitted that the server has not
                       \* answered yet

\* the state of the rate limiter
lim == <<limiter, requests, passed>>

\* the state of the JWT utilities
jwt == <<blacklistedTokens, issued, revoked>>

\* the state of the HTTP side, which no socket handler touches
\* the state of the browser client
cli == <<client, outbox>>

svc == <<lim, now, jwt, cli>>

vars == <<live, groups, connectedUsers, roomParticipants, dbRooms, messages,
          tasks, nOps, lastIn, emitted, connected, refused, svc>>

\* ---------------------------------------------------------------- events
NoInput == [ev |-> "none", conn |-> NoConn, roomId |-> NoRoom, content |-> "empty"]
Input(ev, c, r, k) == [ev |-> ev, conn |-> c, roomId |-> r, content |-> k]

Event(to, ev, r, u, msg, snap) ==
    [to |-> to, ev |-> ev, roomId |-> r, user |-> u, msg |-> msg, snap |-> snap]

\* socket.emit(ev, ...): reaches the client only while the socket is connected
SocketEmit(lv, c, ev, r, msg, snap) ==
    IF c \in lv THEN {Event(c, ev, r, Owner(c), msg, snap)} ELSE {}

\* socket.to(room).emit(ev, ...): every socket of the group except the sender
SocketToEmit(lv, g, c, r, ev, snap) ==
    {Event(d, ev, r, Owner(c), "", snap) : d \in {x \in lv : r \in g[x] /\ x # c}}

\* io.to(room).emit taken for socket.to(room).emit
IoToEmitExceptSender(lv, g, c, r, ev, snap) ==
    {Event(d, ev, r, Owner(c), "", snap) : d \in {x \in lv : r \in g[x] /\ x # c}}

\* io.to(room).emit(ev, ...): every socket of the group
IoToEmit(lv, g, c, r, ev, snap) ==
    {Event(d, ev, r, Owner(c), "", snap) : d \in {x \in lv : r \in g[x]}}

\* ---------------------------------------------------------------- stores
\* Room.findById: null, or the record with its isActive flag
FindById(db, r) ==
    IF r \notin DOMAIN db THEN "null"
    ELSE IF db[r].isActive THEN "active" ELSE "inactive"

\* room.addParticipant(userId): push unless included, then save
AddParticipant(db, r, u) ==
    IF r \in DOMAIN db THEN [db EXCEPT ![r].participants = @ \cup {u}] ELSE db

\* room.removeParticipant(userId): splice if present, then save
RemoveParticipant(db, r, u) ==
    IF r \in DOMAIN db THEN [db EXCEPT ![r].participants = @ \ {u}] ELSE db

\* the limit of Message.validateContent, line 31
MaxContentLength == 1000

\* contents at the limit: exactly 1000 characters, and 1000 characters with a
\* space before and after
EdgeContents == {"max", "padded"}

\* String.prototype.length of a content
Length(k) ==
    CASE k = "empty" -> 0
      [] k = "blank" -> 2
      [] k = "text" -> 4
      [] k = "max" -> MaxContentLength
      [] k = "long" -> MaxContentLength + 1
      [] k = "padded" -> MaxContentLength + 2

\* String.prototype.trim on a content
Trim(k) ==
    CASE k = "blank" -> "empty"
      [] k = "padded" -> "max"
      [] OTHER -> k

\* Message.validateContent: the list of errors
ValidateContent(k) ==
    IF Length(k) = 0
    THEN {"Message content is required"}
    ELSE (IF Length(Trim(k)) < 1 THEN {"Message content cannot be empty"} ELSE {})
         \cup (IF Length(k) > MaxContentLength
               THEN {"Message content must be no more than 1000 characters long"}
               ELSE {})

\* the limit test of line 31 taken as `>=`
ContentInvalidAtLimit(k) ==
    Length(k) = 0 \/ Length(Trim(k)) < 1 \/ Length(k) >= MaxContentLength

\* Message.create, lines 89-95: the list of errors is non-empty
ContentInvalid(k) == ValidateContent(k) # {}

\* database.create('messages', record)
Persist(ms, r) == [ms EXCEPT ![r] = @ + 1]

\* every database operation starts with `if (!this.connected) throw`
FindByIdCall(conn, db, r) == IF conn THEN FindById(db, r) ELSE "throw"

\* room.addParticipant saves, and so reaches the database, only for a new id
AddParticipantCall(conn, db, r, u) ==
    IF ~conn /\ ~(r \in DOMAIN db /\ u \in db[r].participants) THEN "throw" ELSE "ok"

\* room.removeParticipant saves only when the id was in the list
RemoveParticipantCall(conn, db, r, u) ==
    IF ~conn /\ r \in DOMAIN db /\ u \in db[r].participants THEN "throw" ELSE "ok"

\* database.create without the `if (!this.connected) throw`
CreateCallUnchecked(conn) == "ok"

\* Message.create of valid data: database.create
CreateCall(conn) == IF conn THEN "ok" ELSE "throw"

\* createdBy of the rooms that exist from the start
CreatedBy(r) == "u1"

\* database.findMany('messages', {roomId}): the records of the room
FindMany(ms, r) == ms[r]

\* deleteByRoom lines 190-194: deleteById for each record that findMany returned
DeleteFound(ms, r, n) == [ms EXCEPT ![r] = @ - n]

\* the names of the rooms that exist from the start
InitialName(r) == CASE r = "rA" -> "a" [] r = "rB" -> "b" [] OTHER -> "i"

\* String.prototype.trim on a room name
TrimName(n) == IF n = " lobby " THEN "lobby" ELSE n

\* Room.validateName: the list of errors is non-empty
NameInvalid(n) == n = ""

\* Room.findByName: database.findOne('rooms', {name: name.trim()}), the id of
\* the first record with that name, "null" when there is none
FindByName(db, n) ==
    LET hits == {i \in 1..Len(RoomOrder) :
                    RoomOrder[i] \in DOMAIN db /\ db[RoomOrder[i]].name = TrimName(n)}
    IN  IF hits = {} THEN "null"
        ELSE RoomOrder[CHOOSE i \in hits : \A j \in hits : i <= j]

\* uuidv4() of Room.create: the next id not handed out yet
NewRoomId(db) ==
    NewRoomIds[CHOOSE i \in 1..Len(NewRoomIds) :
                  /\ NewRoomIds[i] \notin DOMAIN db
                  /\ \A j \in 1..(i - 1) : NewRoomIds[j] \in DOMAIN db]

\* ---------------------------------------------------------------- registry
\* handleConnection: the entry stored for a new socket
NewEntry(c) == [socketId |-> c, currentRoom |-> NoRoom]

\* new Map()
EmptyMap == [x \in {} |-> {}]

\* Map.set(key, value)
MapSet(m, k, v) == [x \in DOMAIN m \cup {k} |-> IF x = k THEN v ELSE m[x]]

\* Map.delete(key)
MapDelete(m, k) == [x \in DOMAIN m \ {k} |-> m[x]]

\* connectedUsers.get(userId): the entry object, named by the socket that made it
GetUserInfo(cu, u) == IF u \in DOMAIN cu THEN cu[u].socketId ELSE NoConn

\* userInfo.currentRoom of connectedUsers.get(userId), null when undefined
CurrentRoomOf(cu, u) == IF u \in DOMAIN cu THEN cu[u].currentRoom ELSE NoRoom

\* ---------------------------------------------------------------- room state
\* leaveRoom, lines 221-222: socket.leave(roomId)
LeaveGroups(g, c, r) == [g EXCEPT ![c] = @ \ {r}]

\* leaveRoom, lines 224-228: clear currentRoom if it is the room being left
LeaveRegistry(cu, u, r) ==
    IF u \in DOMAIN cu /\ cu[u].currentRoom = r
    THEN [cu EXCEPT ![u].currentRoom = NoRoom]
    ELSE cu

\* lines 230-238 without the clean-up of an emptied set
LeaveParticipantsKeepEmpty(rp, u, r) ==
    IF r \in DOMAIN rp THEN [rp EXCEPT ![r] = @ \ {u}] ELSE rp

\* leaveRoom, lines 230-238: drop the user, and the room's entry when it empties
LeaveParticipants(rp, u, r) ==
    IF r \in DOMAIN rp
    THEN IF rp[r] \ {u} = {} THEN MapDelete(rp, r) ELSE [rp EXCEPT ![r] = @ \ {u}]
    ELSE rp

\* handleJoinRoom, line 148: socket.join(roomId); a closed socket joins nothing
JoinGroups(lv, g, c, r) == IF c \in lv THEN [g EXCEPT ![c] = @ \cup {r}] ELSE g

\* handleJoinRoom, lines 150-153: write through the userInfo object read earlier;
\* it is still the Map's entry only if no later connection replaced it and no
\* disconnect deleted it
JoinRegistry(cu, u, ui, r) ==
    IF ui # NoConn /\ u \in DOMAIN cu /\ cu[u].socketId = ui
    THEN [cu EXCEPT ![u].currentRoom = r]
    ELSE cu

\* handleJoinRoom, lines 155-159
JoinParticipants(rp, u, r) ==
    IF r \in DOMAIN rp THEN [rp EXCEPT ![r] = @ \cup {u}] ELSE MapSet(rp, r, {u})

\* getRoomParticipantsList without the `if (userInfo)` filter
GetRoomParticipantsListAll(rp, cu, r) == IF r \in DOMAIN rp THEN rp[r] ELSE {}

\* getRoomParticipantsList: the ids of the room that have a registry entry
GetRoomParticipantsList(rp, cu, r) ==
    IF r \in DOMAIN rp THEN {u \in rp[r] : u \in DOMAIN cu} ELSE {}

\* getStats, lines 398-404
GetStats(cu, rp) ==
    [connectedUsers |-> Cardinality(DOMAIN cu),
     activeRooms |-> Cardinality(DOMAIN rp),
     totalConnections |-> Cardinality(DOMAIN cu)]

\* ---------------------------------------------------------------- handlers
Task(id, kind, c, r, k, pc, res, ui, lroom, snap, in0) ==
    [id |-> id, kind |-> kind, conn |-> c, roomId |-> r, content |-> k, pc |-> pc,
     res |-> res, ui |-> ui, lroom |-> lroom, snap |-> snap, in0 |-> in0,
     n |-> 0]

\* a name for a new handler invocation: greater than the names of all handlers
\* in flight, so that of two suspended handlers the one dispatched first has
\* the smaller name
NewId == CHOOSE i \in 1..(nOps + 1) :
            /\ \A t \in tasks : t.id < i
            /\ (i = 1 \/ \E t \in tasks : t.id = i - 1)

Resume(t, pc) == [t EXCEPT !.pc = pc]

\* a socket id is given to a new connection only when nothing refers to the old one
Unreferenced(c) == \A t \in tasks : t.conn # c /\ t.ui # c

Init ==
    /\ live = {}
    /\ groups = [c \in Conns |-> {}]
    /\ connectedUsers = EmptyMap
    /\ roomParticipants = EmptyMap
    /\ dbRooms = [r \in ActiveRooms \cup InactiveRooms |->
                    [isActive |-> r \in ActiveRooms, participants |-> {},
                     name |-> InitialName(r)]]
    /\ messages = [r \in RoomIds |-> 0]
    /\ tasks = {}
    /\ nOps = 0
    /\ lastIn = NoInput
    /\ emitted = {}
    /\ connected = TRUE
    /\ refused = {}
    /\ limiter = NoLimiter
    /\ requests = EmptyMap
    /\ now = 0
    /\ passed = [ip \in ClientIds |-> <<>>]
    /\ blacklistedTokens = {}
    /\ issued = {}
    /\ revoked = {}
    /\ client = [isConnected |-> FALSE, currentRoom |-> NoRoom, roomAtDrop |-> NoRoom,
                 pending |-> {"connect"}]
    /\ outbox = <<>>

\* handleConnection: the registry entry, the listeners, the 'connected' event
Register(c) ==
    /\ live' = live \cup {c}
    /\ refused' = refused \ {c}
    /\ connectedUsers' = MapSet(connectedUsers, Owner(c), NewEntry(c))
    /\ emitted' = SocketEmit(live', c, "connected", NoRoom, "", {})
    /\ nOps' = nOps + 1
    /\ UNCHANGED <<groups, roomParticipants, dbRooms, messages, tasks, connected, svc>>

\* a handshake with the owner's valid token: the middleware finds the user
\* (the database must answer) and the 'connection' event runs handleConnection
HandleConnection(c) ==
    /\ c \notin live
    /\ Unreferenced(c)
    /\ connected
    /\ Register(c)
    /\ lastIn' = Input("connection", c, NoRoom, "empty")

\* the part of leaveRoom(socket, r) that runs before its first await (lines
\* 214-241): the in-memory teardown, then Room.findById(r) is issued
LeaveRoomStart(old, t, r, g) ==
    /\ groups' = LeaveGroups(g, t.conn, r)
    /\ connectedUsers' = LeaveRegistry(connectedUsers, Owner(t.conn), r)
    /\ roomParticipants' = LeaveParticipants(roomParticipants, Owner(t.conn), r)
    /\ tasks' = (tasks \ {old}) \cup
                 {[t EXCEPT !.pc = "l_find", !.lroom = r,
                            !.res = FindByIdCall(connected, dbRooms, r)]}

\* handleJoinRoom lines 147-162: the in-memory join, then room.addParticipant
JoinRoomCommit(t, ui) ==
    /\ groups' = JoinGroups(live, groups, t.conn, t.roomId)
    /\ connectedUsers' = JoinRegistry(connectedUsers, Owner(t.conn), ui, t.roomId)
    /\ roomParticipants' = JoinParticipants(roomParticipants, Owner(t.conn), t.roomId)
    /\ dbRooms' = IF connected
                  THEN AddParticipant(dbRooms, t.roomId, Owner(t.conn))
                  ELSE dbRooms
    /\ tasks' = (tasks \ {t}) \cup
                 {[t EXCEPT !.pc = "j_add", !.ui = ui,
                            !.res = AddParticipantCall(connected, dbRooms, t.roomId,
                                                       Owner(t.conn))]}

\* the socket's 'disconnect' event: socket.io has removed the socket from all its
\* groups, then handleDisconnect runs up to its first await
HandleDisconnect(c) ==
    /\ c \in live
    /\ live' = live \ {c}
    /\ nOps' = nOps + 1
    /\ lastIn' = Input("disconnect", c, NoRoom, "empty")
    /\ emitted' = {}
    /\ UNCHANGED <<dbRooms, messages, connected, refused, svc>>
    /\ LET cr == CurrentRoomOf(connectedUsers, Owner(c))
           g0 == [groups EXCEPT ![c] = {}]
           t  == Task(NewId, "disconnect", c, NoRoom, "empty", "start", "null",
                      NoConn, NoRoom, {}, groups[c])
       IN  IF cr # NoRoom
           THEN LeaveRoomStart(t, t, cr, g0)
           ELSE /\ groups' = g0
                /\ connectedUsers' = MapDelete(connectedUsers, Owner(c))
                /\ UNCHANGED <<roomParticipants, tasks>>

\* 'join-room' {roomId}: handleJoinRoom up to await Room.findById (lines 118-130)
HandleJoinRoom(c, r) ==
    /\ c \in live
    /\ nOps' = nOps + 1
    /\ lastIn' = Input("join-room", c, r, "empty")
    /\ UNCHANGED <<live, groups, connectedUsers, roomParticipants, dbRooms, messages,
                   connected, refused, svc>>
    /\ IF r = NoRoom
       THEN /\ emitted' = SocketEmit(live, c, "error", NoRoom, "Room ID is required", {})
            /\ UNCHANGED tasks
       ELSE /\ emitted' = {}
            /\ tasks' = tasks \cup
                 {Task(NewId, "join", c, r, "empty", "j_find",
                       FindByIdCall(connected, dbRooms, r),
                       NoConn, NoRoom, {}, groups[c])}

\* lines 131-139 without the `!room.isActive` test
JoinRejectionNotFoundOnly(res) == IF res = "null" THEN "Room not found" ELSE ""

\* handleJoinRoom lines 131-139: the error a room record is refused with, "" if none
JoinRejection(res) ==
    IF res = "null" THEN "Room not found"
    ELSE IF res = "inactive" THEN "Room is not active"
    ELSE ""

\* handleJoinRoom lines 131-162, resumed with the room record
JoinRoomFound(t) ==
    /\ t \in tasks /\ t.pc = "j_find" /\ t.res # "throw"
    /\ lastIn' = NoInput
    /\ UNCHANGED <<live, messages, nOps, connected, refused, svc>>
    /\ IF JoinRejection(t.res) # ""
       THEN /\ emitted' = SocketEmit(live, t.conn, "error", NoRoom, JoinRejection(t.res), {})
            /\ tasks' = tasks \ {t}
            /\ UNCHANGED <<groups, connectedUsers, roomParticipants, dbRooms>>
       ELSE /\ emitted' = {}
            /\ LET ui == GetUserInfo(connectedUsers, Owner(t.conn))
                   cr == CurrentRoomOf(connectedUsers, Owner(t.conn))
               IN  IF cr # NoRoom
                   THEN /\ LeaveRoomStart(t, [t EXCEPT !.ui = ui], cr, groups)
                        /\ UNCHANGED dbRooms
                   ELSE JoinRoomCommit(t, ui)

\* leaveRoom lines 241-243 (room found) or 263-270 (room missing)
LeaveRoomFound(t) ==
    /\ t \in tasks /\ t.pc = "l_find" /\ t.res # "throw"
    /\ lastIn' = NoInput
    /\ UNCHANGED <<live, groups, connectedUsers, roomParticipants, messages, nOps,
                   connected, refused, svc>>
    /\ IF t.res # "null"
       THEN /\ dbRooms' = IF connected
                          THEN RemoveParticipant(dbRooms, t.lroom, Owner(t.conn))
                          ELSE dbRooms
            /\ emitted' = {}
            /\ tasks' = (tasks \ {t}) \cup
                 {[t EXCEPT !.pc = "l_rm",
                            !.res = RemoveParticipantCall(connected, dbRooms, t.lroom,
                                                          Owner(t.conn))]}
       ELSE /\ emitted' = SocketEmit(live, t.conn, "room-left", t.lroom, "", {})
            /\ tasks' = (tasks \ {t}) \cup {Resume(t, "l_ret")}
            /\ UNCHANGED dbRooms

\* leaveRoom lines 245-246: Message.createUserLeftNotification
LeaveRoomRemoved(t) ==
    /\ t \in tasks /\ t.pc = "l_rm" /\ t.res # "throw"
    /\ lastIn' = NoInput
    /\ messages' = IF connected THEN Persist(messages, t.lroom) ELSE messages
    /\ emitted' = {}
    /\ tasks' = (tasks \ {t}) \cup
                 {[t EXCEPT !.pc = "l_msg", !.res = CreateCall(connected)]}
    /\ UNCHANGED <<live, groups, connectedUsers, roomParticipants, dbRooms, nOps,
                   connected, refused, svc>>

\* leaveRoom lines 248-256: 'user-left' to the others, then the participant list
LeaveRoomNotified(t) ==
    /\ t \in tasks /\ t.pc = "l_msg" /\ t.res # "throw"
    /\ lastIn' = NoInput
    /\ emitted' = SocketToEmit(live, groups, t.conn, t.lroom, "user-left", {})
    /\ tasks' = (tasks \ {t}) \cup
         {[t EXCEPT !.pc = "l_list",
                    !.snap = GetRoomParticipantsList(roomParticipants, connectedUsers, t.lroom)]}
    /\ UNCHANGED <<live, groups, connectedUsers, roomParticipants, dbRooms, messages, nOps,
                   connected, refused, svc>>

\* leaveRoom lines 257-270: 'participants-update' to the others, 'room-left' to the socket
LeaveRoomListed(t) ==
    /\ t \in tasks /\ t.pc = "l_list"
    /\ lastIn' = NoInput
    /\ emitted' = SocketToEmit(live, groups, t.conn, t.lroom, "participants-update", t.snap)
                  \cup SocketEmit(live, t.conn, "room-left", t.lroom, "", {})
    /\ tasks' = (tasks \ {t}) \cup {Resume(t, "l_ret")}
    /\ UNCHANGED <<live, groups, connectedUsers, roomParticipants, dbRooms, messages, nOps,
                   connected, refused, svc>>

\* the caller resumes after `await this.leaveRoom(...)`: handleJoinRoom line 147,
\* handleLeaveRoom line 204, handleDisconnect line 370
LeaveRoomReturned(t) ==
    /\ t \in tasks /\ t.pc = "l_ret"
    /\ lastIn' = NoInput
    /\ emitted' = {}
    /\ UNCHANGED <<live, messages, nOps, connected, refused, svc>>
    /\ IF t.kind = "join"
       THEN JoinRoomCommit(t, t.ui)
       ELSE /\ tasks' = tasks \ {t}
            /\ connectedUsers' = IF t.kind = "disconnect"
                                 THEN MapDelete(connectedUsers, Owner(t.conn))
                                 ELSE connectedUsers
            /\ UNCHANGED <<groups, roomParticipants, dbRooms>>

\* handleJoinRoom lines 164-165: Message.createUserJoinedNotification
JoinRoomAdded(t) ==
    /\ t \in tasks /\ t.pc = "j_add" /\ t.res # "throw"
    /\ lastIn' = NoInput
    /\ messages' = IF connected THEN Persist(messages, t.roomId) ELSE messages
    /\ emitted' = {}
    /\ tasks' = (tasks \ {t}) \cup
                 {[t EXCEPT !.pc = "j_msg", !.res = CreateCall(connected)]}
    /\ UNCHANGED <<live, groups, connectedUsers, roomParticipants, dbRooms, nOps,
                   connected, refused, svc>>

\* handleJoinRoom lines 167-175: 'user-joined' to the others, then the participant list
JoinRoomNotified(t) ==
    /\ t \in tasks /\ t.pc = "j_msg" /\ t.res # "throw"
    /\ lastIn' = NoInput
    /\ emitted' = SocketToEmit(live, groups, t.conn, t.roomId, "user-joined", {})
    /\ tasks' = (tasks \ {t}) \cup
         {[t EXCEPT !.pc = "j_list",
                    !.snap = GetRoomParticipantsList(roomParticipants, connectedUsers, t.roomId)]}
    /\ UNCHANGED <<live, groups, connectedUsers, roomParticipants, dbRooms, messages, nOps,
                   connected, refused, svc>>

\* handleJoinRoom lines 176-189: 'participants-update' to the room, 'room-joined' to the socket
JoinRoomListed(t) ==
    /\ t \in tasks /\ t.pc = "j_list"
    /\ lastIn' = NoInput
    /\ emitted' = IoToEmit(live, groups, t.conn, t.roomId, "participants-update", t.snap)
                  \cup SocketEmit(live, t.conn, "room-joined", t.roomId, "", t.snap)
    /\ tasks' = tasks \ {t}
    /\ UNCHANGED <<live, groups, connectedUsers, roomParticipants, dbRooms, messages, nOps,
                   connected, refused, svc>>

\* 'leave-room' {roomId}: handleLeaveRoom up to the first await of leaveRoom
HandleLeaveRoom(c, r) ==
    /\ c \in live
    /\ nOps' = nOps + 1
    /\ lastIn' = Input("leave-room", c, r, "empty")
    /\ emitted' = {}
    /\ UNCHANGED <<live, dbRooms, messages, connected, refused, svc>>
    /\ LET t == Task(NewId, "leave", c, r, "empty", "l_ret", "null", NoConn, NoRoom,
                     {}, groups[c])
       IN  IF r = NoRoom
           THEN /\ tasks' = tasks \cup {t}
                /\ UNCHANGED <<groups, connectedUsers, roomParticipants>>
           ELSE LeaveRoomStart(t, t, r, groups)

\* line 281 without the `!content` test
SendMissingRoomOnly(r, k) == r = NoRoom

\* handleSendMessage line 281: roomId or content missing
SendMissing(r, k) == r = NoRoom \/ Length(k) = 0

\* handleSendMessage lines 287-288: the sender's registry entry is not in the room
SendNotInRoom(cu, u, r) == u \notin DOMAIN cu \/ cu[u].currentRoom # r

\* 'send-message' {roomId, content}: handleSendMessage up to await Room.findById
HandleSendMessage(c, r, k) ==
    /\ c \in live
    /\ nOps' = nOps + 1
    /\ lastIn' = Input("send-message", c, r, k)
    /\ UNCHANGED <<live, groups, connectedUsers, roomParticipants, dbRooms, messages,
                   connected, refused, svc>>
    /\ IF SendMissing(r, k)
       THEN /\ emitted' = SocketEmit(live, c, "error", NoRoom,
                                     "Room ID and message content are required", {})
            /\ UNCHANGED tasks
       ELSE IF SendNotInRoom(connectedUsers, Owner(c), r)
       THEN /\ emitted' = SocketEmit(live, c, "error", NoRoom,
                                     "You must be in the room to send messages", {})
            /\ UNCHANGED tasks
       ELSE /\ emitted' = {}
            /\ tasks' = tasks \cup
                 {Task(NewId, "send", c, r, k, "s_find",
                       FindByIdCall(connected, dbRooms, r),
                       NoConn, NoRoom, {}, groups[c])}

\* handleSendMessage lines 295-306 and the catch block: Message.create(content.trim())
SendMessageFound(t) ==
    /\ t \in tasks /\ t.pc = "s_find" /\ t.res # "throw"
    /\ lastIn' = NoInput
    /\ UNCHANGED <<live, groups, connectedUsers, roomParticipants, dbRooms, nOps,
                   connected, refused, svc>>
    /\ IF t.res # "active"
       THEN /\ emitted' = SocketEmit(live, t.conn, "error", NoRoom,
                                     "Room not found or inactive", {})
            /\ tasks' = tasks \ {t}
            /\ UNCHANGED messages
       ELSE IF ContentInvalid(Trim(t.content))
       THEN /\ emitted' = SocketEmit(live, t.conn, "error", NoRoom,
                                     "Message validation failed", {})
            /\ tasks' = tasks \ {t}
            /\ UNCHANGED messages
       ELSE /\ emitted' = {}
            /\ messages' = IF connected THEN Persist(messages, t.roomId) ELSE messages
            /\ tasks' = (tasks \ {t}) \cup
                 {[t EXCEPT !.pc = "s_msg", !.res = CreateCall(connected)]}

\* handleSendMessage lines 308-313: 'new-message' to the room
SendMessageCreated(t) ==
    /\ t \in tasks /\ t.pc = "s_msg" /\ t.res # "throw"
    /\ lastIn' = NoInput
    /\ emitted' = IoToEmit(live, groups, t.conn, t.roomId, "new-message", {})
    /\ tasks' = tasks \ {t}
    /\ UNCHANGED <<live, groups, connectedUsers, roomParticipants, dbRooms, messages, nOps,
                   connected, refused, svc>>

\* the catch block of the handler whose awaited call was rejected: handleJoinRoom
\* lines 191-194, handleLeaveRoom 205-208, handleSendMessage 315-326;
\* handleDisconnect has none, its rejection ends it before connectedUsers.delete
HandlerRejected(t) ==
    /\ t \in tasks /\ t.res = "throw"
    /\ lastIn' = NoInput
    /\ emitted' = IF t.kind = "join"
                  THEN SocketEmit(live, t.conn, "error", NoRoom, "Failed to join room", {})
                  ELSE IF t.kind = "leave"
                  THEN SocketEmit(live, t.conn, "error", NoRoom, "Failed to leave room", {})
                  ELSE IF t.kind = "send"
                  THEN SocketEmit(live, t.conn, "error", NoRoom, "Failed to send message", {})
                  ELSE {}
    /\ tasks' = tasks \ {t}
    /\ UNCHANGED <<live, groups, connectedUsers, roomParticipants, dbRooms, messages, nOps,
                   connected, refused, svc>>

\* SIGTERM/SIGINT: dbManager.shutdown() disconnects the database while the
\* sockets stay open
Shutdown ==
    /\ connected
    /\ connected' = FALSE
    /\ lastIn' = Input("shutdown", NoConn, NoRoom, "empty")
    /\ emitted' = {}
    /\ UNCHANGED <<live, groups, connectedUsers, roomParticipants, dbRooms, messages, tasks,
                   nOps, refused, svc>>

\* verifyToken without the isTokenBlacklisted test
VerifyTokenNoBlacklist(tok) ==
    IF tok = NoToken THEN "TOKEN_REQUIRED"
    ELSE IF tok = "expired" THEN "TOKEN_EXPIRED"
    ELSE IF tok = "forged" THEN "TOKEN_INVALID"
    ELSE ""

\* jwtUtils.verifyToken: the code of the error thrown, "" when the token verifies
VerifyToken(tok) ==
    IF tok = NoToken THEN "TOKEN_REQUIRED"
    ELSE IF tok = "revoked" THEN "TOKEN_BLACKLISTED"
    ELSE IF tok = "expired" THEN "TOKEN_EXPIRED"
    ELSE IF tok = "forged" THEN "TOKEN_INVALID"
    ELSE ""

\* the authentication middleware: the error passed to next(), "" when it accepts
MiddlewareError(conn, tok) ==
    IF tok = NoToken THEN "Authentication token required"
    ELSE IF VerifyToken(tok) # "" THEN "Authentication failed"
    ELSE IF ~conn THEN "Authentication failed"
    ELSE IF tok = "ghost" THEN "User not found"
    ELSE ""

\* a handshake carrying token tok: refused by the middleware, or accepted and
\* followed by the 'connection' event
Handshake(c, tok) ==
    /\ c \notin live
    /\ Unreferenced(c)
    /\ lastIn' = Input("handshake", c, NoRoom, tok)
    /\ IF MiddlewareError(connected, tok) = ""
       THEN Register(c)
       ELSE /\ refused' = refused \cup {c}
            /\ emitted' = {Event(c, "connect_error", NoRoom, NoConn,
                                  MiddlewareError(connected, tok), {})}
            /\ nOps' = nOps + 1
            /\ UNCHANGED <<live, groups, connectedUsers, roomParticipants, dbRooms,
                           messages, tasks, connected, svc>>

\* events sent on a refused socket
RoomEvents == {"join-room", "leave-room", "send-message", "get-room-participants"}

\* an event on a socket the middleware refused: setupSocketEvents never ran for
\* it, so no listener takes the event
UnheardEvent(c, ev, r) ==
    /\ c \in refused
    /\ lastIn' = Input(ev, c, r, "text")
    /\ emitted' = {}
    /\ nOps' = nOps + 1
    /\ UNCHANGED <<live, groups, connectedUsers, roomParticipants, dbRooms, messages, tasks,
                   connected, refused, svc>>

\* 'get-room-participants' {roomId}: handleGetRoomParticipants up to its await
HandleGetRoomParticipants(c, r) ==
    /\ c \in live
    /\ nOps' = nOps + 1
    /\ lastIn' = Input("get-room-participants", c, r, "empty")
    /\ UNCHANGED <<live, groups, connectedUsers, roomParticipants, dbRooms, messages,
                   connected, refused, svc>>
    /\ IF r = NoRoom
       THEN /\ emitted' = SocketEmit(live, c, "error", NoRoom, "Room ID is required", {})
            /\ UNCHANGED tasks
       ELSE /\ emitted' = {}
            /\ tasks' = tasks \cup
                 {Task(NewId, "query", c, r, "empty", "q_list", "ok", NoConn, NoRoom,
                       GetRoomParticipantsList(roomParticipants, connectedUsers, r),
                       groups[c])}

\* handleGetRoomParticipants lines 343-346: 'room-participants' to the socket
GetRoomParticipantsListed(t) ==
    /\ t \in tasks /\ t.pc = "q_list"
    /\ lastIn' = NoInput
    /\ emitted' = SocketEmit(live, t.conn, "room-participants", t.roomId, "", t.snap)
    /\ tasks' = tasks \ {t}
    /\ UNCHANGED <<live, groups, connectedUsers, roomParticipants, dbRooms, messages, nOps,
                   connected, refused, svc>>

\* an error thrown to the caller of a model method
Thrown(code) == Event(NoConn, "throw", NoRoom, NoConn, code, {})

\* Room.create({name, createdBy}) up to await this.findByName (lines 73-84)
RoomCreate(n) ==
    /\ \E i \in 1..Len(NewRoomIds) : NewRoomIds[i] \notin DOMAIN dbRooms
    /\ nOps' = nOps + 1
    /\ lastIn' = Input("Room.create", NoConn, NoRoom, n)
    /\ UNCHANGED <<live, groups, connectedUsers, roomParticipants, dbRooms, messages,
                   connected, refused, svc>>
    /\ IF NameInvalid(n)
       THEN /\ emitted' = {Thrown("VALIDATION_ERROR")}
            /\ UNCHANGED tasks
       ELSE /\ emitted' = {}
            /\ tasks' = tasks \cup
                 {Task(NewId, "create", NoConn, NoRoom, n, "c_find",
                       FindByName(dbRooms, n), NoConn, NoRoom, {}, {})}

\* Room.create lines 85-102, resumed with the result of findByName
RoomCreateFound(t) ==
    /\ t \in tasks /\ t.pc = "c_find"
    /\ lastIn' = NoInput
    /\ tasks' = tasks \ {t}
    /\ UNCHANGED <<live, groups, connectedUsers, roomParticipants, messages, nOps,
                   connected, refused, svc>>
    /\ IF t.res # "null"
       THEN /\ emitted' = {Thrown("ROOM_NAME_EXISTS")}
            /\ UNCHANGED dbRooms
       ELSE /\ emitted' = {}
            /\ dbRooms' = MapSet(dbRooms, NewRoomId(dbRooms),
                                 [isActive |-> TRUE, participants |-> {},
                                  name |-> TrimName(t.content)])

\* room.updateName(newName) on the loaded room r, up to await Room.findByName
\* (lines 206-217)
RoomUpdateName(r, n) ==
    /\ r \in DOMAIN dbRooms
    /\ nOps' = nOps + 1
    /\ lastIn' = Input("updateName", NoConn, r, n)
    /\ UNCHANGED <<live, groups, connectedUsers, roomParticipants, dbRooms, messages,
                   connected, refused, svc>>
    /\ IF NameInvalid(n)
       THEN /\ emitted' = {Thrown("VALIDATION_ERROR")}
            /\ UNCHANGED tasks
       ELSE /\ emitted' = {}
            /\ tasks' = tasks \cup
                 {Task(NewId, "rename", NoConn, r, n, "u_find",
                       FindByName(dbRooms, n), NoConn, NoRoom, {}, {})}

\* updateName lines 218-226: the name is saved unless another room has it; save
\* writes the loaded isActive and participants, which nothing here changes
RoomUpdateNameFound(t) ==
    /\ t \in tasks /\ t.pc = "u_find"
    /\ lastIn' = NoInput
    /\ tasks' = tasks \ {t}
    /\ UNCHANGED <<live, groups, connectedUsers, roomParticipants, messages, nOps,
                   connected, refused, svc>>
    /\ IF t.res # "null" /\ t.res # t.roomId
       THEN /\ emitted' = {Thrown("ROOM_NAME_EXISTS")}
            /\ UNCHANGED dbRooms
       ELSE /\ emitted' = {}
            /\ dbRooms' = [dbRooms EXCEPT ![t.roomId].name = TrimName(t.content)]

\* the JSON response of a controller
Response(r, code) == Event(NoConn, "response", r, NoConn, code, {})

\* DELETE /api/rooms/:id by user u: deleteRoom up to await Room.findById (lines
\* 275-290); one request per room at a time
DeleteRoom(u, r) ==
    /\ \A t \in tasks : ~(t.kind = "delete" /\ t.roomId = r)
    /\ nOps' = nOps + 1
    /\ lastIn' = Input("deleteRoom", NoConn, r, "empty")
    /\ emitted' = {}
    /\ tasks' = tasks \cup
         {Task(NewId, "delete", NoConn, r, "empty", "d_find",
               FindByIdCall(connected, dbRooms, r), u, NoRoom, {}, {})}
    /\ UNCHANGED <<live, groups, connectedUsers, roomParticipants, dbRooms, messages,
                   connected, refused, svc>>

\* deleteRoom lines 292-313: 404, 403, or Message.deleteByRoom up to its await
\* of database.findMany (Message.js line 189)
DeleteRoomFound(t) ==
    /\ t \in tasks /\ t.pc = "d_find" /\ t.res # "throw"
    /\ lastIn' = NoInput
    /\ UNCHANGED <<live, groups, connectedUsers, roomParticipants, dbRooms, messages,
                   nOps, connected, refused, svc>>
    /\ IF t.res = "null"
       THEN /\ emitted' = {Response(t.roomId, "ROOM_NOT_FOUND")}
            /\ tasks' = tasks \ {t}
       ELSE IF CreatedBy(t.roomId) # t.ui
       THEN /\ emitted' = {Response(t.roomId, "INSUFFICIENT_PERMISSIONS")}
            /\ tasks' = tasks \ {t}
       ELSE /\ emitted' = {}
            /\ tasks' = (tasks \ {t}) \cup
                 {[t EXCEPT !.pc = "d_many", !.n = FindMany(messages, t.roomId)]}

\* Message.deleteByRoom lines 190-194: the records found are deleted
DeleteRoomMessages(t) ==
    /\ t \in tasks /\ t.pc = "d_many"
    /\ lastIn' = NoInput
    /\ emitted' = {}
    /\ messages' = DeleteFound(messages, t.roomId, t.n)
    /\ tasks' = (tasks \ {t}) \cup {Resume(t, "d_msgs")}
    /\ UNCHANGED <<live, groups, connectedUsers, roomParticipants, dbRooms, nOps,
                   connected, refused, svc>>

\* deleteRoom line 316: room.delete()
DeleteRoomRecord(t) ==
    /\ t \in tasks /\ t.pc = "d_msgs"
    /\ lastIn' = NoInput
    /\ emitted' = {}
    /\ dbRooms' = MapDelete(dbRooms, t.roomId)
    /\ tasks' = (tasks \ {t}) \cup {Resume(t, "d_room")}
    /\ UNCHANGED <<live, groups, connectedUsers, roomParticipants, messages, nOps,
                   connected, refused, svc>>

\* deleteRoom lines 318-321: the success response
DeleteRoomDone(t) ==
    /\ t \in tasks /\ t.pc = "d_room"
    /\ lastIn' = NoInput
    /\ emitted' = {Response(t.roomId, "Room deleted successfully")}
    /\ tasks' = tasks \ {t}
    /\ UNCHANGED <<live, groups, connectedUsers, roomParticipants, dbRooms, messages,
                   nOps, connected, refused, svc>>

\* Array.prototype.filter
RECURSIVE Filter(_, _)
Filter(q, keep) ==
    IF q = <<>> THEN <<>>
    ELSE IF Head(q) \in keep THEN <<Head(q)>> \o Filter(Tail(q), keep)
    ELSE Filter(Tail(q), keep)

\* the filter of line 147 taken as `timestamp >= windowStart`
ValidRequestsInclusive(q, windowStart) ==
    Filter(q, {ts \in 0..MaxTime : ts >= windowStart})

\* rateLimiter line 147: the timestamps after the start of the window
ValidRequests(q, windowStart) ==
    Filter(q, {ts \in 0..MaxTime : ts > windowStart})

\* rateLimiter(maxRequests, windowMs), lines 136-137: a limiter with an empty Map
RateLimiter(m, w) ==
    /\ ~limiter.made
    /\ limiter' = [made |-> TRUE, maxRequests |-> m, windowMs |-> w]
    /\ requests' = EmptyMap
    /\ lastIn' = Input("rateLimiter", NoConn, NoRoom, "empty")
    /\ emitted' = {}
    /\ UNCHANGED <<live, groups, connectedUsers, roomParticipants, dbRooms, messages,
                   tasks, nOps, connected, refused, cli, now, passed, jwt>>

\* the middleware the limiter returns, lines 139-169, for a request of client ip
LimitRequest(ip) ==
    /\ limiter.made
    /\ nOps' = nOps + 1
    /\ lastIn' = Input("request", NoConn, NoRoom, ip)
    /\ LET windowStart == now - limiter.windowMs
           cleaned == IF ip \in DOMAIN requests
                      THEN MapSet(requests, ip, ValidRequests(requests[ip], windowStart))
                      ELSE requests
           currentRequests == IF ip \in DOMAIN cleaned THEN cleaned[ip] ELSE <<>>
       IN  IF Len(currentRequests) >= limiter.maxRequests
           THEN /\ emitted' = {Response(NoRoom, "RATE_LIMIT_EXCEEDED")}
                /\ requests' = cleaned
                /\ UNCHANGED passed
           ELSE /\ emitted' = {Response(NoRoom, "next")}
                /\ requests' = MapSet(cleaned, ip, Append(currentRequests, now))
                /\ passed' = [passed EXCEPT ![ip] = Append(@, now)]
    /\ UNCHANGED <<live, groups, connectedUsers, roomParticipants, dbRooms, messages,
                   tasks, connected, refused, cli, limiter, now, jwt>>

\* a millisecond passes
Tick ==
    /\ now < MaxTime
    /\ now' = now + 1
    /\ lastIn' = NoInput
    /\ emitted' = {}
    /\ UNCHANGED <<live, groups, connectedUsers, roomParticipants, dbRooms, messages,
                   tasks, nOps, connected, refused, cli, lim, jwt>>

\* jwt.sign at time clock: iat and exp are in seconds
GenerateToken(clock, ttl) ==
    [iat |-> clock \div 1000, exp |-> (clock \div 1000) + ttl, kind |-> "signed"]

\* jwt.verify: the signature, then `Math.floor(Date.now() / 1000) >= exp`
JwtVerify(clock, tok) ==
    IF tok.kind # "signed" THEN "TOKEN_INVALID"
    ELSE IF clock \div 1000 >= tok.exp THEN "TOKEN_EXPIRED"
    ELSE ""

\* verifyToken lines 176-214 on the blacklist bl: the code of the error, "" when
\* the token verifies
VerifyTokenAt(bl, clock, tok) ==
    IF tok \in bl THEN "TOKEN_BLACKLISTED" ELSE JwtVerify(clock, tok)

\* the test of line 331 taken one second early
CleanupRemovesEarly(clock, tok) ==
    \/ tok.kind = "garbage"
    \/ tok.exp # 0 /\ clock >= (tok.exp - 1) * 1000

\* cleanupBlacklist lines 327-337: the token cannot be decoded, or
\* `exp && Date.now() >= exp * 1000`
CleanupRemoves(clock, tok) ==
    \/ tok.kind = "garbage"
    \/ tok.exp # 0 /\ clock >= tok.exp * 1000

\* login: generateToken for the user with options.expiresIn = ttl
Login(ttl) ==
    /\ issued' = issued \cup {GenerateToken(now, ttl)}
    /\ nOps' = nOps + 1
    /\ lastIn' = Input("generateToken", NoConn, NoRoom, GenerateToken(now, ttl))
    /\ emitted' = {}
    /\ UNCHANGED <<live, groups, connectedUsers, roomParticipants, dbRooms, messages,
                   tasks, connected, refused, cli, lim, now, blacklistedTokens, revoked>>

\* a client gets hold of a token the server did not sign
Craft(tok) ==
    /\ tok \notin issued
    /\ issued' = issued \cup {tok}
    /\ nOps' = nOps + 1
    /\ lastIn' = Input("craft", NoConn, NoRoom, tok)
    /\ emitted' = {}
    /\ UNCHANGED <<live, groups, connectedUsers, roomParticipants, dbRooms, messages,
                   tasks, connected, refused, cli, lim, now, blacklistedTokens, revoked>>

\* a request authenticates with tok: authenticateToken calls verifyToken
Authenticate(tok) ==
    /\ nOps' = nOps + 1
    /\ lastIn' = Input("verifyToken", NoConn, NoRoom, tok)
    /\ emitted' = {Response(NoRoom, VerifyTokenAt(blacklistedTokens, now, tok))}
    /\ UNCHANGED <<live, groups, connectedUsers, roomParticipants, dbRooms, messages,
                   tasks, connected, refused, cli, lim, now, jwt>>

\* POST /api/auth/logout with tok: authenticateToken, then blacklistToken
Logout(tok) ==
    /\ nOps' = nOps + 1
    /\ lastIn' = Input("logout", NoConn, NoRoom, tok)
    /\ emitted' = {Response(NoRoom, VerifyTokenAt(blacklistedTokens, now, tok))}
    /\ IF VerifyTokenAt(blacklistedTokens, now, tok) = ""
       THEN /\ blacklistedTokens' = blacklistedTokens \cup {tok}
            /\ revoked' = revoked \cup {tok}
       ELSE UNCHANGED <<blacklistedTokens, revoked>>
    /\ UNCHANGED <<live, groups, connectedUsers, roomParticipants, dbRooms, messages,
                   tasks, connected, refused, cli, lim, now, issued>>

\* refreshToken(tok) lines 241-255: verify, blacklist the old token, generate
RefreshToken(tok) ==
    /\ nOps' = nOps + 1
    /\ lastIn' = Input("refreshToken", NoConn, NoRoom, tok)
    /\ emitted' = {Response(NoRoom, VerifyTokenAt(blacklistedTokens, now, tok))}
    /\ IF VerifyTokenAt(blacklistedTokens, now, tok) = ""
       THEN /\ blacklistedTokens' = blacklistedTokens \cup {tok}
            /\ revoked' = revoked \cup {tok}
            /\ issued' = issued \cup {GenerateToken(now, tok.exp - tok.iat)}
       ELSE UNCHANGED <<blacklistedTokens, revoked, issued>>
    /\ UNCHANGED <<live, groups, connectedUsers, roomParticipants, dbRooms, messages,
                   tasks, connected, refused, cli, lim, now>>

\* cleanupBlacklist lines 324-345
CleanupBlacklist ==
    /\ blacklistedTokens' = {tok \in blacklistedTokens : ~CleanupRemoves(now, tok)}
    /\ nOps' = nOps + 1
    /\ lastIn' = Input("cleanupBlacklist", NoConn, NoRoom, "empty")
    /\ emitted' = {}
    /\ UNCHANGED <<live, groups, connectedUsers, roomParticipants, dbRooms, messages,
                   tasks, connected, refused, cli, lim, now, issued, revoked>>

\* d milliseconds pass
Elapse(d) ==
    /\ now' = now + d
    /\ nOps' = nOps + 1
    /\ lastIn' = NoInput
    /\ emitted' = {}
    /\ UNCHANGED <<live, groups, connectedUsers, roomParticipants, dbRooms, messages,
                   tasks, connected, refused, cli, lim, jwt>>

\* an event the client emits to the server
ClientEmit(ev, r) == [ev |-> ev, roomId |-> r]

\* a step of the client: it touches nothing on the server
ClientStep(ev, r) ==
    /\ nOps' = nOps + 1
    /\ lastIn' = Input(ev, NoConn, r, "empty")
    /\ emitted' = {}
    /\ UNCHANGED <<live, groups, connectedUsers, roomParticipants, dbRooms, messages,
                   tasks, connected, refused, lim, now, jwt>>

\* the socket's 'connect' event: SocketManager.handleConnection, lines 563-578
ClientHandleConnection ==
    /\ "connect" \in client.pending
    /\ client' = [client EXCEPT !.isConnected = TRUE, !.pending = @ \ {"connect"}]
    /\ UNCHANGED outbox
    /\ ClientStep("connect", NoRoom)

\* SocketManager.joinRoom(roomId): throws unless connected, else emits join-room
ClientJoinRoom(r) ==
    /\ client.isConnected
    /\ outbox' = Append(outbox, ClientEmit("join-room", r))
    /\ UNCHANGED client
    /\ ClientStep("joinRoom", r)

\* SocketManager.leaveRoom(): emits leave-room for the current room, if any
ClientLeaveRoom ==
    /\ client.isConnected
    /\ outbox' = IF client.currentRoom # NoRoom
                  THEN Append(outbox, ClientEmit("leave-room", client.currentRoom))
                  ELSE outbox
    /\ UNCHANGED client
    /\ ClientStep("leaveRoom", client.currentRoom)

\* the server's room-joined for the oldest join-room: handleRoomJoined
ClientHandleRoomJoined ==
    /\ client.isConnected
    /\ outbox # <<>> /\ Head(outbox).ev = "join-room"
    /\ client' = [client EXCEPT !.currentRoom = Head(outbox).roomId]
    /\ outbox' = Tail(outbox)
    /\ ClientStep("room-joined", Head(outbox).roomId)

\* the server's room-left for the oldest leave-room: handleRoomLeft
ClientHandleRoomLeft ==
    /\ client.isConnected
    /\ outbox # <<>> /\ Head(outbox).ev = "leave-room"
    /\ client' = [client EXCEPT !.currentRoom = NoRoom]
    /\ outbox' = Tail(outbox)
    /\ ClientStep("room-left", Head(outbox).roomId)

\* handleDisconnection lines 584-587; roomAtDrop remembers the room for the claim
Dropped(cl) ==
    [cl EXCEPT !.isConnected = FALSE, !.currentRoom = NoRoom,
               !.roomAtDrop = cl.currentRoom]

\* the socket's 'disconnect' event: the connection dropped, what the server had
\* still to answer is lost, and the library reconnects by itself
ClientHandleDisconnection ==
    /\ client.isConnected
    /\ client' = [Dropped(client) EXCEPT !.pending = {"connect", "reconnect"}]
    /\ outbox' = <<>>
    /\ ClientStep("disconnect", NoRoom)

\* the 'reconnect' event after a drop: handleReconnection, lines 616-627; the
\* library raises it before or after the 'connect' event of the new connection,
\* and joinRoom throws when it comes first
ClientHandleReconnection ==
    /\ "reconnect" \in client.pending
    /\ outbox' = IF client.currentRoom # NoRoom /\ client.isConnected
                  THEN Append(outbox, ClientEmit("join-room", client.currentRoom))
                  ELSE outbox
    /\ client' = [client EXCEPT !.pending = @ \ {"reconnect"}]
    /\ ClientStep("reconnect", client.roomAtDrop)

\* inbound events of the sockets in C, while fewer than n have been dispatched
\* and the event loop is free to take one (idle)
Dispatch(C, n, idle) ==
    \/ \E c \in C : idle /\ nOps < n /\ HandleConnection(c)
    \/ \E c \in C : idle /\ nOps < n /\ HandleDisconnect(c)
    \/ \E c \in C, r \in RoomInputs : idle /\ nOps < n /\ HandleJoinRoom(c, r)
    \/ \E c \in C, r \in RoomInputs : idle /\ nOps < n /\ HandleLeaveRoom(c, r)
    \/ \E c \in C, r \in RoomInputs, k \in Contents :
          idle /\ nOps < n /\ HandleSendMessage(c, r, k)

\* a suspended handler resumes
Continue ==
    \/ \E t \in tasks : JoinRoomFound(t)
    \/ \E t \in tasks : LeaveRoomFound(t)
    \/ \E t \in tasks : LeaveRoomRemoved(t)
    \/ \E t \in tasks : LeaveRoomNotified(t)
    \/ \E t \in tasks : LeaveRoomListed(t)
    \/ \E t \in tasks : LeaveRoomReturned(t)
    \/ \E t \in tasks : JoinRoomAdded(t)
    \/ \E t \in tasks : JoinRoomNotified(t)
    \/ \E t \in tasks : JoinRoomListed(t)
    \/ \E t \in tasks : SendMessageFound(t)
    \/ \E t \in tasks : SendMessageCreated(t)

\* handlers interleave at their awaits
Next == Dispatch(Conns, MaxOps, TRUE) \/ Continue

Spec == Init /\ [][Next]_vars

\* every handler runs to completion before the next inbound event is dispatched
NextSeq == Dispatch(Conns, MaxSeqOps, tasks = {}) \/ Continue

SpecSeq == Init /\ [][NextSeq]_vars

\* a single socket whose handlers interleave at their awaits
NextSolo == Dispatch({"c1"}, MaxSoloOps, TRUE) \/ Continue

SpecSolo == Init /\ [][NextSolo]_vars

\* one socket per user; the database may be shut down at any point, also while
\* a handler is suspended
NextFail ==
    \/ Dispatch({"c1", "c3"}, MaxFailOps, tasks = {})
    \/ Continue
    \/ \E t \in tasks : HandlerRejected(t)
    \/ Shutdown

SpecFail == Init /\ [][NextFail]_vars

\* handshakes with any token, and events on refused sockets
NextAuth ==
    \/ Dispatch(Conns, MaxAuthOps, tasks = {})
    \/ Continue
    \/ \E c \in Conns, tok \in Tokens :
          tasks = {} /\ nOps < MaxAuthOps /\ Handshake(c, tok)
    \/ \E c \in Conns, ev \in RoomEvents, r \in RoomInputs :
          tasks = {} /\ nOps < MaxAuthOps /\ UnheardEvent(c, ev, r)

SpecAuth == Init /\ [][NextAuth]_vars

\* participant queries between the other events
NextQuery ==
    \/ Dispatch(Conns, MaxQueryOps, tasks = {})
    \/ Continue
    \/ \E c \in Conns, r \in RoomInputs :
          tasks = {} /\ nOps < MaxQueryOps /\ HandleGetRoomParticipants(c, r)
    \/ \E t \in tasks : GetRoomParticipantsListed(t)

SpecQuery == Init /\ [][NextQuery]_vars

\* one socket per user, messages of every length
NextSend ==
    \/ Dispatch({"c1", "c3"}, MaxSendOps, tasks = {})
    \/ Continue
    \/ \E c \in {"c1", "c3"}, r \in ActiveRooms, k \in EdgeContents :
          tasks = {} /\ nOps < MaxSendOps /\ HandleSendMessage(c, r, k)

SpecSend == Init /\ [][NextSend]_vars

\* concurrent calls of Room.create and room.updateName
NextRooms ==
    \/ \E n \in NameInputs : nOps < MaxRoomOps /\ RoomCreate(n)
    \/ \E r \in RoomIds, n \in NameInputs : nOps < MaxRoomOps /\ RoomUpdateName(r, n)
    \/ \E t \in tasks : RoomCreateFound(t)
    \/ \E t \in tasks : RoomUpdateNameFound(t)

SpecRooms == Init /\ [][NextRooms]_vars

\* one socket whose handlers interleave with room deletions
NextDelete ==
    \/ Dispatch({"c1"}, MaxDeleteOps, TRUE)
    \/ Continue
    \/ \E u \in Users, r \in RoomIds : nOps < MaxDeleteOps /\ DeleteRoom(u, r)
    \/ \E t \in tasks : DeleteRoomFound(t)
    \/ \E t \in tasks : DeleteRoomMessages(t)
    \/ \E t \in tasks : DeleteRoomRecord(t)
    \/ \E t \in tasks : DeleteRoomDone(t)

SpecDelete == Init /\ [][NextDelete]_vars

\* requests of two clients through one limiter while time passes
NextLimit ==
    \/ \E m \in LimiterMaxes, w \in LimiterWindows : RateLimiter(m, w)
    \/ \E ip \in ClientIds : nOps < MaxLimitOps /\ LimitRequest(ip)
    \/ Tick

SpecLimit == Init /\ [][NextLimit]_vars

\* calls of the JWT utilities while time passes
NextToken ==
    \/ \E ttl \in ExpiresIn : nOps < MaxTokenOps /\ Login(ttl)
    \/ \E tok \in CraftedTokens : nOps < MaxTokenOps /\ Craft(tok)
    \/ \E tok \in issued : nOps < MaxTokenOps /\ Authenticate(tok)
    \/ \E tok \in issued : nOps < MaxTokenOps /\ Logout(tok)
    \/ \E tok \in issued : nOps < MaxTokenOps /\ RefreshToken(tok)
    \/ nOps < MaxTokenOps /\ CleanupBlacklist
    \/ \E d \in Delays : nOps < MaxTokenOps /\ Elapse(d)

SpecToken == Init /\ [][NextToken]_vars

\* the events of one browser client
NextClient ==
    \/ nOps < MaxClientOps /\ ClientHandleConnection
    \/ \E r \in ActiveRooms : nOps < MaxClientOps /\ ClientJoinRoom(r)
    \/ nOps < MaxClientOps /\ ClientLeaveRoom
    \/ nOps < MaxClientOps /\ ClientHandleRoomJoined
    \/ nOps < MaxClientOps /\ ClientHandleRoomLeft
    \/ nOps < MaxClientOps /\ ClientHandleDisconnection
    \/ nOps < MaxClientOps /\ ClientHandleReconnection

SpecClient == Init /\ [][NextClient]_vars

\* ---------------------------------------------------------------- vocabulary
\* the user is in the participant set of room r
InParticipants(rp, u, r) == r \in DOMAIN rp /\ u \in rp[r]

\* the registry entry of the socket's user is the one made for this socket
Registered(cu, c) == Owner(c) \in DOMAIN cu /\ cu[Owner(c)].socketId = c

\* the events of one kind delivered by the last step
Delivered(ev) == {e \in emitted : e.ev = ev}

ErrorTo(c, msg) == Event(c, "error", NoRoom, Owner(c), msg, {})

\* the socket the last step acted for: the sender of the dispatched event, or
\* the socket of the handler that resumed
ActedFor(d) ==
    \/ lastIn'.conn = d
    \/ /\ lastIn' = NoInput
       /\ \E t \in tasks : t.conn = d /\ t \notin tasks'

\* ---------------------------------------------------------------- claims

\* C1: whenever no handler is in flight, a user is in roomParticipants[r] if and
\* only if some connected socket of that user is joined to room r.
C1_ParticipantsIffJoined ==
    tasks = {} =>
        \A u \in Users, r \in RoomIds :
            InParticipants(roomParticipants, u, r)
                <=> \E c \in live : Owner(c) = u /\ r \in groups[c]

\* C2: a connected socket is never in the transport group of more than one room,
\* and a user whose only socket it is is never in more than one participant set.
C2_AtMostOneRoom ==
    \A c \in live :
        /\ Cardinality(groups[c]) <= 1
        /\ (\A d \in live \ {c} : Owner(d) # Owner(c))
              => Cardinality({r \in RoomIds :
                                InParticipants(roomParticipants, Owner(c), r)}) <= 1

\* C3: a join-room handler of a socket that was in room A when the event arrived
\* has run leaveRoom for A (room-left, user-left) before it joins the new room,
\* and when the new room's set gains the user, A's set no longer holds it.
C3_LeaveBeforeJoin ==
    \A t \in tasks :
        (t.kind = "join" /\ t.pc \in {"j_add", "j_msg", "j_list"}) =>
            \A A \in t.in0 :
                /\ t.lroom = A
                /\ (/\ t.pc = "j_add"
                    /\ A # t.roomId
                    /\ \A d \in live \ {t.conn} : ~(Owner(d) = Owner(t.conn) /\ A \in groups[d]))
                      => ~InParticipants(roomParticipants, Owner(t.conn), A)

\* C4: when a socket joined to room R disconnects, R's participant set loses the
\* user and the handler runs leaveRoom for R, whose user-left and
\* participants-update each go once to every socket remaining in R.
C4_DisconnectCleanup ==
    [][ /\ \A c \in Conns, R \in RoomIds :
              (lastIn'.ev = "disconnect" /\ lastIn'.conn = c /\ R \in groups[c]) =>
                  /\ ~InParticipants(roomParticipants', Owner(c), R)
                  /\ \E t \in tasks' :
                        t.kind = "disconnect" /\ t.conn = c /\ t.lroom = R
        /\ \A t \in tasks :
              (t.kind = "disconnect" /\ t.pc = "l_msg" /\ t \notin tasks') =>
                  {e.to : e \in {x \in emitted' : x.ev = "user-left"}}
                      = {d \in live : t.lroom \in groups[d]}
        /\ \A t \in tasks :
              (t.kind = "disconnect" /\ t.pc = "l_list" /\ t \notin tasks') =>
                  {e.to : e \in {x \in emitted' : x.ev = "participants-update"}}
                      = {d \in live : t.lroom \in groups[d]}
      ]_vars

\* C5: a send-message with valid content for active room R from a socket joined
\* to R is accepted, and its new-message goes to exactly the sockets joined to R.
C5_MessageVisibility ==
    [][ /\ \A c \in Conns, R \in ActiveRooms :
              (/\ lastIn'.ev = "send-message" /\ lastIn'.conn = c
               /\ lastIn'.roomId = R /\ lastIn'.content = "text"
               /\ R \in groups[c]) =>
                  \E t \in tasks' \ tasks :
                      t.kind = "send" /\ t.conn = c /\ t.roomId = R
        /\ \A t \in tasks :
              (t.kind = "send" /\ t.pc = "s_msg" /\ t \notin tasks') =>
                  /\ emitted' \subseteq {e \in emitted' : e.ev = "new-message"}
                  /\ {e.to : e \in emitted'} = {d \in live : t.roomId \in groups[d]}
      ]_vars

\* C6: a send-message with empty content or without roomId yields the error to
\* the sender only, starts no handler that could persist or broadcast, and leaves
\* the registry, the participant sets, the groups and the stores unchanged.
C6_MissingFieldsRejected ==
    [][ (/\ lastIn'.ev = "send-message"
         /\ (lastIn'.roomId = NoRoom \/ lastIn'.content = "empty")) =>
            /\ emitted' = {ErrorTo(lastIn'.conn, "Room ID and message content are required")}
            /\ UNCHANGED <<connectedUsers, roomParticipants, groups, messages, dbRooms, tasks>>
      ]_vars

\* a socket joined to a room has just sent it a message with empty content
C6_Witness ==
    /\ lastIn.ev = "send-message"
    /\ lastIn.content = "empty"
    /\ lastIn.roomId \in groups[lastIn.conn]
    /\ emitted = {ErrorTo(lastIn.conn, "Room ID and message content are required")}

\* C7: a send-message for room R from a socket that is not itself joined to R is
\* rejected with 'You must be in the room to send messages' and goes no further.
C7_SenderMustBeJoined ==
    [][ \A c \in Conns, R \in RoomIds :
            (/\ lastIn'.ev = "send-message" /\ lastIn'.conn = c
             /\ lastIn'.roomId = R /\ lastIn'.content # "empty"
             /\ R \notin groups[c]) =>
                /\ emitted' = {ErrorTo(c, "You must be in the room to send messages")}
                /\ UNCHANGED <<messages, tasks>>
      ]_vars

\* C8: a step taken for one socket of a user leaves another connected socket of
\* that user in its room, registered, and counted in its room's participant set.
C8_ConnectionsIndependent ==
    [][ \A c \in Conns, d \in Conns :
            (c # d /\ Owner(c) = Owner(d) /\ c \in live /\ ActedFor(d)) =>
                /\ groups'[c] = groups[c]
                /\ Registered(connectedUsers, c) => Registered(connectedUsers', c)
                /\ \A R \in groups[c] :
                      InParticipants(roomParticipants, Owner(c), R)
                          => InParticipants(roomParticipants', Owner(c), R)
      ]_vars

\* C9: the currentRoom of every registry entry is exactly the room whose
\* transport group the entry's socket is in, null when it is in none.
C9_RegistryConsistent ==
    \A u \in DOMAIN connectedUsers :
        groups[connectedUsers[u].socketId] =
            IF connectedUsers[u].currentRoom = NoRoom
            THEN {}
            ELSE {connectedUsers[u].currentRoom}

\* C10: a join-room without roomId, or for a room that has no record or is
\* inactive, emits its error to the requester only and changes neither the
\* groups, the registry, the participant sets nor the stores.
C10_FailedJoinNoEffect ==
    [][ /\ (lastIn'.ev = "join-room" /\ lastIn'.roomId = NoRoom) =>
              /\ emitted' = {ErrorTo(lastIn'.conn, "Room ID is required")}
              /\ UNCHANGED <<groups, connectedUsers, roomParticipants, dbRooms,
                             messages, tasks>>
        /\ (/\ lastIn'.ev = "join-room" /\ lastIn'.roomId # NoRoom
            /\ ~(lastIn'.roomId \in DOMAIN dbRooms /\ dbRooms[lastIn'.roomId].isActive)) =>
              /\ emitted' = {}
              /\ UNCHANGED <<groups, connectedUsers, roomParticipants, dbRooms, messages>>
        /\ \A t \in tasks :
              (/\ t.kind = "join" /\ t.pc = "j_find" /\ t \notin tasks'
               /\ ~(t.roomId \in DOMAIN dbRooms /\ dbRooms[t.roomId].isActive)) =>
                  /\ emitted' =
                        IF t.conn \in live
                        THEN {ErrorTo(t.conn, IF t.roomId \in DOMAIN dbRooms
                                              THEN "Room is not active"
                                              ELSE "Room not found")}
                        ELSE {}
                  /\ tasks' = tasks \ {t}
                  /\ UNCHANGED <<groups, connectedUsers, roomParticipants, dbRooms, messages>>
      ]_vars

\* a socket that is in a room has just been refused an inactive room
C10_Witness ==
    \E c \in live :
        /\ groups[c] # {}
        /\ emitted = {ErrorTo(c, "Room is not active")}
        /\ roomParticipants # EmptyMap

\* the handler invocation t is over after the step
Ended(t) == \A x \in tasks' : x.id # t.id

\* the error events delivered by the step
ErrorsEmitted == {e \in emitted' : e.ev = "error"}

\* C11: a join-room handler that has applied its in-memory join ends by sending
\* room-joined to the requester and no error, and a leave-room handler that has
\* applied its teardown ends after room-left without sending an error, also when
\* the Room update or the notification Message cannot be persisted.
C11_PersistenceFailureSwallowed ==
    [][ \A t \in tasks :
            /\ (t.kind = "join" /\ t.pc \in {"j_add", "j_msg", "j_list"} /\ Ended(t)) =>
                  /\ ErrorsEmitted = {}
                  /\ t.conn \in live =>
                        \E e \in emitted' : e.ev = "room-joined" /\ e.to = t.conn
            /\ (t.kind = "leave" /\ t.pc \in {"l_rm", "l_msg", "l_list", "l_ret"} /\ Ended(t)) =>
                  /\ ErrorsEmitted = {}
                  /\ t.pc = "l_ret"
      ]_vars

\* C12: new-message is broadcast only by a send-message handler whose
\* Message.create returned the created record, a create returns a record only
\* when the store gained the message, and a handler whose create was rejected
\* ends with an error to the sender and no broadcast.
C12_DurableBeforeFanOut ==
    [][ /\ (\E e \in emitted' : e.ev = "new-message") =>
              \E t \in tasks :
                  t.kind = "send" /\ t.pc = "s_msg" /\ t.res = "ok" /\ Ended(t)
        /\ \A x \in tasks' \ tasks :
              (x.kind = "send" /\ x.pc = "s_msg") =>
                  IF x.res = "ok"
                  THEN messages' = [messages EXCEPT ![x.roomId] = @ + 1]
                  ELSE messages' = messages
        /\ \A t \in tasks :
              (t.kind = "send" /\ t.pc = "s_msg" /\ t.res # "ok" /\ Ended(t)) =>
                  emitted' = IF t.conn \in live
                             THEN {ErrorTo(t.conn, "Failed to send message")}
                             ELSE {}
      ]_vars

\* the Message.create of a sender was rejected while another socket is in the room
C12_Witness ==
    \E t \in tasks :
        /\ t.kind = "send" /\ t.pc = "s_msg" /\ t.res = "throw"
        /\ t.conn \in live
        /\ \E d \in live \ {t.conn} : t.roomId \in groups[d]

\* C13: a handshake without token, with a blacklisted, forged or expired token,
\* or with a token of an unknown user is refused and changes nothing; a refused
\* socket is not connected, has no registry entry, no group and no handler, and
\* an event sent on it is not processed.
C13_RefusedBeforeAnyHandler ==
    [][ /\ (lastIn'.ev = "handshake" /\ lastIn'.content # "valid") =>
              /\ lastIn'.conn \in refused'
              /\ UNCHANGED <<live, connectedUsers, roomParticipants, groups, tasks,
                             dbRooms, messages>>
        /\ \A c \in refused' :
              /\ c \notin live'
              /\ ~Registered(connectedUsers', c)
              /\ groups'[c] = {}
              /\ \A t \in tasks' : t.conn # c
        /\ (lastIn'.ev \in RoomEvents /\ lastIn'.conn \in refused) =>
              /\ emitted' = {}
              /\ UNCHANGED <<live, connectedUsers, roomParticipants, groups, tasks,
                             dbRooms, messages>>
      ]_vars

\* a refused socket has just sent join-room for a room with a member
C13_Witness ==
    /\ lastIn.ev = "join-room"
    /\ lastIn.conn \in refused
    /\ lastIn.roomId \in DOMAIN roomParticipants

\* C14: when the disconnect handler of a socket is over the registry holds no
\* entry made for that socket, when every socket has disconnected and every
\* handler is over the registry is empty, and only disconnect handling ever
\* removes a user's entry.
C14_DisconnectRemovesEntry ==
    [][ /\ \A t \in tasks :
              (t.kind = "disconnect" /\ Ended(t)) => ~Registered(connectedUsers', t.conn)
        /\ (lastIn'.ev = "disconnect" /\ tasks' = tasks) =>
              ~Registered(connectedUsers', lastIn'.conn)
        /\ (live' = {} /\ tasks' = {}) => connectedUsers' = EmptyMap
        /\ (\E u \in DOMAIN connectedUsers : u \notin DOMAIN connectedUsers') =>
              \/ lastIn'.ev = "disconnect"
              \/ \E t \in tasks : t.kind = "disconnect" /\ Ended(t)
      ]_vars

\* the sockets an event of the step was delivered to
Recipients(ev) == {e.to : e \in {x \in emitted' : x.ev = ev}}

\* the connected sockets in the transport group of room r
Members(r) == {d \in live : r \in groups[d]}

C16_JoinSnapshot ==
    [][ \A t \in tasks :
            (t.kind = "join" /\ t.pc = "j_list" /\ t \notin tasks') =>
                \A e \in emitted' :
                    /\ e.snap = {Owner(d) : d \in Members(t.roomId)}
                    /\ Owner(t.conn) \in e.snap
      ]_vars

\* C17: a leave-room for the room R the socket is joined to takes the socket out
\* of R's group (it is then in no room) and the user out of roomParticipants[R];
\* the handler then sends user-left and participants-update to the sockets
\* remaining in R and never to the leaver, room-left to the leaver alone, and
\* ends only after that.
C17_LeaveRoom ==
    [][ /\ \A c \in Conns, R \in RoomIds :
              (/\ lastIn'.ev = "leave-room" /\ lastIn'.conn = c /\ lastIn'.roomId = R
               /\ c \in live /\ R \in groups[c] /\ groups[c] = {R}) =>
                  /\ groups'[c] = {}
                  /\ ~InParticipants(roomParticipants', Owner(c), R)
                  /\ \E t \in tasks' \ tasks :
                        t.kind = "leave" /\ t.conn = c /\ t.lroom = R
        /\ \A t \in tasks :
              (t.kind = "leave" /\ t.lroom \in t.in0 /\ t \notin tasks') =>
                  /\ t.pc = "l_find" => \E x \in tasks' : x.id = t.id /\ x.pc = "l_rm"
                  /\ t.pc = "l_rm" => \E x \in tasks' : x.id = t.id /\ x.pc = "l_msg"
                  /\ t.pc = "l_msg" =>
                        /\ Recipients("user-left") = Members(t.lroom) \ {t.conn}
                        /\ \E x \in tasks' : x.id = t.id /\ x.pc = "l_list"
                  /\ t.pc = "l_list" =>
                        /\ Recipients("participants-update") = Members(t.lroom) \ {t.conn}
                        /\ Recipients("room-left") = {t.conn} \cap live
                  /\ Ended(t) => (t.pc = "l_ret" /\ emitted' = {})
      ]_vars

\* C18: a join-room for the room R the socket is already in runs as a leave of R
\* followed by the join: the handler leaves R first, and when it is over the
\* socket is in R alone and the user is in roomParticipants[R], as before.
C18_RejoinIsLeaveThenJoin ==
    [][ \A t \in tasks :
            (t.kind = "join" /\ t.roomId \in t.in0 /\ t \notin tasks') =>
                /\ (t.pc = "j_find" /\ t.res = "active") =>
                      \E x \in tasks' : x.id = t.id /\ x.pc = "l_find" /\ x.lroom = t.roomId
                /\ (t.pc = "j_list" /\ Ended(t) /\ t.conn \in live) =>
                      /\ groups'[t.conn] = t.in0
                      /\ InParticipants(roomParticipants', Owner(t.conn), t.roomId)
      ]_vars

\* C19: get-room-participants for room r answers the requester with exactly the
\* users of roomParticipants[r] that have a registry entry, the empty list for a
\* room without participant set, raises no error and changes no state.
C19_GetParticipants ==
    [][ /\ (lastIn'.ev = "get-room-participants" /\ lastIn'.roomId # NoRoom) =>
              /\ emitted' = {}
              /\ \E x \in tasks' \ tasks :
                    /\ x.kind = "query" /\ x.conn = lastIn'.conn /\ x.roomId = lastIn'.roomId
                    /\ x.snap = {u \in Users :
                                    /\ InParticipants(roomParticipants, u, x.roomId)
                                    /\ u \in DOMAIN connectedUsers}
              /\ UNCHANGED <<live, groups, connectedUsers, roomParticipants, dbRooms,
                             messages>>
        /\ \A t \in tasks :
              (t.kind = "query" /\ t \notin tasks') =>
                  /\ emitted' = IF t.conn \in live
                                THEN {Event(t.conn, "room-participants", t.roomId,
                                            Owner(t.conn), "", t.snap)}
                                ELSE {}
                  /\ Ended(t)
                  /\ UNCHANGED <<live, groups, connectedUsers, roomParticipants, dbRooms,
                                 messages>>
      ]_vars

\* the answer to a query left out a participant that has no registry entry
C19_Witness ==
    \E e \in emitted :
        /\ e.ev = "room-participants"
        /\ e.roomId \in DOMAIN roomParticipants
        /\ \E u \in roomParticipants[e.roomId] : u \notin DOMAIN connectedUsers /\ u \notin e.snap

C21_MutateFirst ==
    [][ /\ \A t \in tasks :
              (t.kind = "join" /\ t.pc = "j_find" /\ t.res = "active" /\ t \notin tasks') =>
                  /\ emitted' = {}
                  /\ \E x \in tasks' : x.id = t.id /\ x.pc = "j_add"
                  /\ InParticipants(roomParticipants', Owner(t.conn), t.roomId)
                  /\ t.conn \in live => t.roomId \in groups'[t.conn]
        /\ \A c \in Conns, R \in RoomIds :
              (lastIn'.ev = "leave-room" /\ lastIn'.conn = c /\ lastIn'.roomId = R) =>
                  /\ emitted' = {}
                  /\ R \notin groups'[c]
                  /\ ~InParticipants(roomParticipants', Owner(c), R)
                  /\ \E x \in tasks' \ tasks : x.kind = "leave" /\ x.pc = "l_find"
      ]_vars

\* C22: a send-message handler that has found its room active persists the
\* message if and only if the trimmed content has between 1 and 1000 characters
\* (exactly 1000 passes, 1001 and whitespace only do not); otherwise it ends
\* with the validation error and its non-empty details to the sender, persists
\* nothing and broadcasts nothing; a persisted message is then broadcast.
C22_ContentLength ==
    [][ \A t \in tasks :
            (t.kind = "send" /\ t.pc = "s_find" /\ t.res = "active" /\ t \notin tasks') =>
                IF 1 <= Length(Trim(t.content)) /\ Length(Trim(t.content)) <= 1000
                THEN /\ messages' = [messages EXCEPT ![t.roomId] = @ + 1]
                     /\ \E x \in tasks' : x.id = t.id /\ x.pc = "s_msg" /\ x.res = "ok"
                     /\ emitted' = {}
                ELSE /\ messages' = messages
                     /\ Ended(t)
                     /\ ValidateContent(Trim(t.content)) # {}
                     /\ emitted' = {ErrorTo(t.conn, "Message validation failed")}
                     /\ Recipients("new-message") = {}
      ]_vars

\* a message of exactly 1000 characters between two spaces has been persisted
\* for a room with another member and awaits its broadcast
C22_Witness ==
    \E t \in tasks :
        /\ t.kind = "send" /\ t.pc = "s_msg" /\ t.res = "ok"
        /\ t.content = "padded"
        /\ messages[t.roomId] > 0
        /\ \E d \in live \ {t.conn} : t.roomId \in groups[d]

\* C23: whatever the interleaving of Room.create and updateName calls, no two
\* room records have the same name, and a call that resumes while another room
\* has its trimmed name ends with ROOM_NAME_EXISTS and changes no record.
C23_RoomNamesUnique ==
    [][ /\ \A a \in DOMAIN dbRooms', b \in DOMAIN dbRooms' :
              a # b => dbRooms'[a].name # dbRooms'[b].name
        /\ \A t \in tasks :
              (/\ t.kind \in {"create", "rename"} /\ Ended(t)
               /\ \E r \in DOMAIN dbRooms :
                     r # t.roomId /\ dbRooms[r].name = TrimName(t.content)) =>
                  /\ emitted' = {Thrown("ROOM_NAME_EXISTS")}
                  /\ dbRooms' = dbRooms
      ]_vars

\* C24: once a deleteRoom of room R has answered with success, and from then
\* on, no Message record with roomId R is persisted, also when a send-message,
\* join-room or leave-room handler for R was in flight during the deletion.
C24_DeleteCascades ==
    \A R \in ActiveRooms \cup InactiveRooms :
        (/\ R \notin DOMAIN dbRooms
         /\ \A t \in tasks : ~(t.kind = "delete" /\ t.roomId = R)) =>
            messages[R] = 0

\* the requests of the log q let through after time s and up to time e
PassedIn(q, s, e) == Cardinality({i \in DOMAIN q : s < q[i] /\ q[i] <= e})

\* C25: a request is passed to next() if and only if fewer than maxRequests
\* passed requests of the same client lie within the last windowMs, and is
\* otherwise answered RATE_LIMIT_EXCEEDED without being counted; it changes
\* nothing for another client; no client is let through more than maxRequests
\* times within a window of length windowMs.
C25_RateLimiter ==
    [][ /\ \A ip \in ClientIds :
              (lastIn'.ev = "request" /\ lastIn'.content = ip) =>
                  /\ IF PassedIn(passed[ip], now - limiter.windowMs, now)
                          < limiter.maxRequests
                     THEN /\ emitted' = {Response(NoRoom, "next")}
                          /\ passed'[ip] = Append(passed[ip], now)
                     ELSE /\ emitted' = {Response(NoRoom, "RATE_LIMIT_EXCEEDED")}
                          /\ passed'[ip] = passed[ip]
                  /\ \A other \in ClientIds \ {ip} :
                        /\ passed'[other] = passed[other]
                        /\ other \in DOMAIN requests =>
                              requests'[other] = requests[other]
                        /\ other \in DOMAIN requests' => other \in DOMAIN requests
        /\ \A ip \in ClientIds, s \in (0 - limiter'.windowMs)..now' :
              PassedIn(passed'[ip], s, s + limiter'.windowMs) <= limiter'.maxRequests
      ]_vars

\* a client has just been let through again, its earliest request lying exactly
\* windowMs back, while the other client has used up its own quota
C25_Witness ==
    /\ lastIn.ev = "request"
    /\ emitted = {Response(NoRoom, "next")}
    /\ \E ip \in ClientIds :
          /\ lastIn.content = ip
          /\ Len(passed[ip]) = limiter.maxRequests + 1
          /\ passed[ip][1] = now - limiter.windowMs
    /\ \E other \in ClientIds :
          /\ other # lastIn.content
          /\ Len(passed[other]) = limiter.maxRequests
          /\ limiter.maxRequests > 0

\* C26: a token blacklisted by logout or by a successful refreshToken fails
\* verifyToken in every later state, cleanupBlacklist calls included; cleanup
\* removes only tokens that are expired; a refresh or logout with such a token
\* fails and hands out no new token.
C26_BlacklistedForever ==
    [][ /\ \A tok \in revoked' : VerifyTokenAt(blacklistedTokens', now', tok) # ""
        /\ \A tok \in blacklistedTokens \ blacklistedTokens' :
              /\ lastIn'.ev = "cleanupBlacklist"
              /\ JwtVerify(now, tok) = "TOKEN_EXPIRED"
        /\ \A tok \in revoked :
              (lastIn'.ev \in {"refreshToken", "logout", "verifyToken"}
               /\ lastIn'.content = tok) =>
                  /\ emitted' # {Response(NoRoom, "")}
                  /\ UNCHANGED jwt
      ]_vars

\* a token that was refreshed away and then dropped from the blacklist by
\* cleanupBlacklist has just been presented again
C26_Witness ==
    /\ lastIn.ev \in {"refreshToken", "verifyToken"}
    /\ \E tok \in revoked \ blacklistedTokens :
          /\ lastIn.content = tok
          /\ emitted = {Response(NoRoom, "TOKEN_EXPIRED")}
          /\ \E new \in issued : new.iat > tok.iat

\* C27: every room that roomParticipants has an entry for has at least one
\* participant, so getStats().activeRooms is the number of rooms with a
\* participant; the entry of a room is gone once its last member has left.
C27_NoEmptyParticipantSet ==
    /\ \A r \in DOMAIN roomParticipants : roomParticipants[r] # {}
    /\ GetStats(connectedUsers, roomParticipants).activeRooms =
          Cardinality({r \in RoomIds : \E u \in Users :
                                          InParticipants(roomParticipants, u, r)})
    /\ \A t \in tasks :
          (t.kind \in {"leave", "disconnect"} /\ t.pc = "l_find"
           /\ ~\E u \in Users : InParticipants(roomParticipants, u, t.lroom)) =>
              t.lroom \notin DOMAIN roomParticipants

\* the only member of a room has just left it by leave-room
C27_Witness ==
    /\ lastIn.ev = "leave-room"
    /\ lastIn.roomId \notin DOMAIN roomParticipants
    /\ \E t \in tasks :
          /\ t.kind = "leave" /\ t.pc = "l_find" /\ t.conn = lastIn.conn
          /\ lastIn.roomId \in t.in0

\* C28: once a socket has disconnected and its handlers are over, also a
\* join-room handler that was suspended when the disconnect arrived, the socket
\* is in no transport group and its user, unless connected by another socket, is
\* in no participant set; when every socket has disconnected and every handler
\* is over, roomParticipants is empty.
C28_NoGhostMembership ==
    /\ \A c \in Conns :
          (c \notin live /\ \A t \in tasks : t.conn # c) =>
              /\ groups[c] = {}
              /\ (\A d \in Conns \ {c} :
                     Owner(d) = Owner(c) => (d \notin live /\ \A t \in tasks : t.conn # d))
                    => \A r \in RoomIds : ~InParticipants(roomParticipants, Owner(c), r)
    /\ (live = {} /\ tasks = {}) => roomParticipants = EmptyMap

\* C29: a leave-room for a room the socket is not joined to changes neither
\* that room's participant set nor the requester's current room or groups, and
\* its handler persists no leave notification and sends neither user-left nor
\* participants-update to anyone.
C29_LeaveOfOtherRoom ==
    [][ /\ \A c \in Conns, R \in RoomIds :
              (/\ lastIn'.ev = "leave-room" /\ lastIn'.conn = c /\ lastIn'.roomId = R
               /\ R \notin groups[c]) =>
                  /\ groups' = groups
                  /\ CurrentRoomOf(connectedUsers', Owner(c))
                        = CurrentRoomOf(connectedUsers, Owner(c))
                  /\ \A u \in Users :
                        InParticipants(roomParticipants', u, R)
                            <=> InParticipants(roomParticipants, u, R)
        /\ \A t \in tasks :
              (t.kind = "leave" /\ t.lroom \notin t.in0 /\ t \notin tasks') =>
                  /\ messages' = messages
                  /\ Recipients("user-left") = {}
                  /\ Recipients("participants-update") = {}
      ]_vars

\* C30: when the client's socket has dropped while the client was in room R and
\* the connection is back, the reconnection handler emits join-room for R, and
\* the room-joined that answers a join-room makes its room the client's current
\* room.
C30_RejoinOnReconnect ==
    [][ /\ (lastIn'.ev = "reconnect" /\ client.roomAtDrop # NoRoom) =>
              outbox' = Append(outbox, ClientEmit("join-room", client.roomAtDrop))
        /\ (lastIn'.ev = "room-joined") => client'.currentRoom = lastIn'.roomId
      ]_vars

====
